---- MODULE Spec2Model ----
(***************************************************************************)
(* A model of the orca OCR pipeline.                                       *)
(*                                                                         *)
(*   Spec     the Batch Analyzer: orca/vision.py analyze_images and        *)
(*            analyze_image (synchronous service, bounded retry) and       *)
(*            orca/azure.py __main__ and analyze_image (asynchronous       *)
(*            service, polling), run against a source directory, a         *)
(*            destination directory and a remote service that answers      *)
(*            nondeterministically.  A run can be terminated at any step   *)
(*            and a fresh run started afterwards.                          *)
(*   DocSpec  the Document Assembler: orca/megadoc.py build_doc over a     *)
(*            directory of result records.                                 *)
(*                                                                         *)
(* File names are sequences of one-character strings, so that Path.stem,   *)
(* Path.suffix, str.lower, str.split and the natural sort are computed     *)
(* the way the code computes them.                                         *)
(***************************************************************************)
EXTENDS Integers, Sequences, FiniteSets, TLC

VARIABLES
    variant,      \* which script runs: "vision" (vision.py) or "azure" (azure.py)
    max_retries,  \* vision.analyze_images' max_retries argument
    src,          \* source directory: file name -> content ("absent" when there is no such file)
    dst,          \* destination directory: record stem -> content of <stem>.json
    run,          \* per process: the position and the locals of the running script
    runs,         \* how many runs have been started so far
    completed,    \* some run has reached the end of its loop
    snap,         \* the destination as the first completed run left it
    doc           \* the state of megadoc.build_doc

vars == <<variant, max_retries, src, dst, run, runs, completed, snap, doc>>

----------------------------------------------------------------------------
(* Bounds *)

MaxRetries == 2    \* max_retries ranges over 0..MaxRetries
MaxRuns == 2       \* runs started one after the other on the same directories
MaxPolls == 2      \* poll GETs of one azure.analyze_image call
MaxFiles == 3      \* files in the source directory
MaxRecords == 4    \* result records in the directory build_doc reads
MaxChunkSize == 3  \* chunk_size ranges over 1..MaxChunkSize

----------------------------------------------------------------------------
(* Characters and strings *)

Digits == {"0", "1", "2", "3", "4", "5", "6", "7", "8", "9"}

\* The characters the model's file names use, in code point order.
AsciiOrder ==
    << "-", ".", "0", "1", "2", "3", "4", "5", "6", "7", "8", "9",
       "G", "I", "M", "N", "P", "_",
       "a", "b", "c", "d", "e", "f", "g", "h", "i", "j", "n", "o", "p", "s", "t", "x" >>

Ord(c) == CHOOSE k \in 1..Len(AsciiOrder) : AsciiOrder[k] = c

DigitVal(c) == Ord(c) - Ord("0")

\* str.lower on one character.
LowerChar(c) ==
    CASE c = "G" -> "g"
      [] c = "I" -> "i"
      [] c = "M" -> "m"
      [] c = "N" -> "n"
      [] c = "P" -> "p"
      [] OTHER -> c

lower(s) == [k \in 1..Len(s) |-> LowerChar(s[k])]

RECURSIVE IntVal(_)
\* int() of a run of digits.
IntVal(ds) ==
    IF ds = <<>> THEN 0
    ELSE IntVal(SubSeq(ds, 1, Len(ds) - 1)) * 10 + DigitVal(ds[Len(ds)])

RECURSIVE StrLess(_, _)
\* Python's < on str: lexicographic by code point.
StrLess(a, b) ==
    IF b = <<>> THEN FALSE
    ELSE IF a = <<>> THEN TRUE
    ELSE IF a[1] # b[1] THEN Ord(a[1]) < Ord(b[1])
    ELSE StrLess(Tail(a), Tail(b))

----------------------------------------------------------------------------
(* pathlib *)

LastDot(name) ==
    IF \E k \in 1..Len(name) : name[k] = "."
    THEN CHOOSE k \in 1..Len(name) :
            name[k] = "." /\ \A j \in (k + 1)..Len(name) : name[j] # "."
    ELSE 0

\* Path.suffix: the last dot and what follows it, unless the dot leads or ends the name.
suffix(name) ==
    IF LastDot(name) > 1 /\ LastDot(name) < Len(name)
    THEN SubSeq(name, LastDot(name), Len(name))
    ELSE <<>>

\* Path.stem: the name without its suffix.
stem(name) == SubSeq(name, 1, Len(name) - Len(suffix(name)))

with_suffix(name, sfx) == stem(name) \o sfx

----------------------------------------------------------------------------
(* natsort.natsorted, default algorithm: unsigned integers *)

\* Length of the first maximal run of digits, or of non-digits, of s.
FirstRun(s) ==
    CHOOSE k \in 1..Len(s) :
        /\ \A j \in 1..k : (s[j] \in Digits) = (s[1] \in Digits)
        /\ k = Len(s) \/ (s[k + 1] \in Digits) # (s[1] \in Digits)

RECURSIVE Runs(_)
Runs(s) ==
    IF s = <<>> THEN <<>>
    ELSE <<SubSeq(s, 1, FirstRun(s))>> \o Runs(SubSeq(s, FirstRun(s) + 1, Len(s)))

\* The key is str, int, str, int, ...: an empty string leads when the name
\* starts with a digit.  Odd positions hold strings, even positions digit runs.
natsort_key(s) ==
    IF s # <<>> /\ s[1] \in Digits THEN << <<>> >> \o Runs(s) ELSE Runs(s)

RECURSIVE KeyLess(_, _, _)
\* Python's < on the key tuples, from position k on.
KeyLess(a, b, k) ==
    IF k > Len(b) THEN FALSE
    ELSE IF k > Len(a) THEN TRUE
    ELSE IF k % 2 = 1
         THEN IF a[k] # b[k] THEN StrLess(a[k], b[k]) ELSE KeyLess(a, b, k + 1)
         ELSE IF IntVal(a[k]) # IntVal(b[k])
              THEN IntVal(a[k]) < IntVal(b[k])
              ELSE KeyLess(a, b, k + 1)

NatLess(x, y) == KeyLess(natsort_key(x), natsort_key(y), 1)

\* A variant of natsorted that returns the names in any order.
unsorted(S) ==
    {lst \in [1..Cardinality(S) -> S] : \A j, k \in 1..Cardinality(S) : lst[j] = lst[k] => j = k}

RECURSIVE natsorted(_)
\* natsorted returns the names in key order: each place takes a name that none
\* of the names left is less than.  Names with equal keys keep the order the
\* listing gave them, which is any order (iterdir and glob promise none), so
\* this is the set of the lists natsorted can return.
natsorted(S) ==
    IF S = {} THEN {<<>>}
    ELSE UNION { { <<m>> \o t : t \in natsorted(S \ {m}) } :
                 m \in {x \in S : \A y \in S : ~NatLess(y, x)} }

----------------------------------------------------------------------------
(* The directories *)

F2heic == <<"f", "2", ".", "h", "e", "i", "c">>
F2jpg  == <<"f", "2", ".", "j", "p", "g">>
F2png  == <<"f", "2", ".", "p", "n", "g">>
F10png == <<"f", "1", "0", ".", "p", "n", "g">>
Ntxt   == <<"n", ".", "t", "x", "t">>

\* The file names a source directory can hold.  f2.heic converts to f2.png.
Universe == {F2heic, F2jpg, F2png, F10png, Ntxt}

Stems == {stem(n) : n \in Universe}

Procs == {1, 2}

\* A JSON value as far as the scripts look into it: None, or a dict known by
\* its top-level keys.  A response body that is no JSON has kind "text".
NoneValue == [kind |-> "none", keys |-> {}]
EmptyDict == [kind |-> "dict", keys |-> {}]
OcrBody == [kind |-> "dict", keys |-> {"modelVersion", "readResult"}]
ErrBody == [kind |-> "dict", keys |-> {"error"}]
Garbled == [kind |-> "text", keys |-> {}]
RunningBody == [kind |-> "dict", keys |-> {"status"}]
FailedBody == [kind |-> "dict", keys |-> {"status", "error"}]
AnalyzedBody == [kind |-> "dict", keys |-> {"status", "analyzeResult"}]

\* What the remote service can answer to vision.py's POST: status and body.
VisionResponses ==
    { <<200, OcrBody>>, <<200, Garbled>>, <<500, ErrBody>>, <<500, Garbled>> }

\* What it can answer to azure.py's POST: status, and whether the response
\* carries the Operation-Location header.
AzureResponses == { <<202, TRUE>>, <<200, FALSE>>, <<500, FALSE>> }

\* What a poll GET of azure.py can return.
PollBodies == {RunningBody, FailedBody, AnalyzedBody, Garbled}

\* A file of the destination directory.
Absent == [state |-> "absent", json |-> NoneValue]
Opened == [state |-> "empty", json |-> NoneValue]
Partial(data) == [state |-> "partial", json |-> data]
Complete(data) == [state |-> "complete", json |-> data]

\* A variant of exists that takes only a record holding data as existing.
existsWithData(f) == f.state = "complete" /\ f.json.keys # {}

\* Path.exists.
exists(f) == f.state # "absent"

----------------------------------------------------------------------------
(* vision.py *)

\* get_img_type: the content type of an existing file with a supported extension.
get_img_type(dir, file_path) ==
    IF file_path \notin DOMAIN dir \/ dir[file_path] = "absent" THEN "none"
    ELSE LET ext == lower(suffix(file_path)) IN
         CASE ext = <<".", "b", "m", "p">> -> "bmp"
           [] ext = <<".", "g", "i", "f">> -> "gif"
           [] ext = <<".", "h", "e", "i", "c">> -> "heic"
           [] ext = <<".", "i", "c", "o">> -> "ico"
           [] ext = <<".", "j", "p", "g">> \/ ext = <<".", "j", "p", "e", "g">> -> "jpeg"
           [] ext = <<".", "m", "p", "o">> -> "mpo"
           [] ext = <<".", "p", "n", "g">> -> "png"
           [] ext = <<".", "t", "i", "f">> \/ ext = <<".", "t", "i", "f", "f">> -> "tiff"
           [] ext = <<".", "w", "e", "b", "p">> -> "webp"
           [] OTHER -> "none"

\* A variant of the retry loop's condition that allows one attempt more.
RetryLoopOffByOne(attempt, retries) == attempt = 0 \/ attempt <= retries

\* The while condition of analyze_image's retry loop.
RetryLoop(attempt, retries) == attempt = 0 \/ attempt < retries

\* response.json(), with the JSONDecodeError handler of analyze_image.
JsonOrEmpty(body) == IF body.kind = "text" THEN EmptyDict ELSE body

\* The files analyze_images lists: the entries get_img_type accepts.
VisionFiles(dir) == {f \in DOMAIN dir : get_img_type(dir, f) # "none"}

\* path.glob('*.png') of azure.py: existing names that end in ".png".
AzureFiles(dir) ==
    {f \in DOMAIN dir :
        /\ dir[f] # "absent"
        /\ Len(f) >= 4
        /\ SubSeq(f, Len(f) - 3, Len(f)) = <<".", "p", "n", "g">>}

\* json_file = out_path / f"{img_file.stem}.json", known by its stem.
json_file(p) == stem(run[p].img_files[run[p].i])

\* The locals of a script, and what the run has done so far: net counts its
\* requests, after tells that it started after a completed run, present holds
\* the positions whose record existed when the loop reached them, touched the
\* positions it sent a request or wrote a file for, failed the positions whose
\* every POST failed, src0 the source directory as it was when the run started.
Idle ==
    [pc |-> "idle", img_files |-> <<>>, i |-> 1, img_file |-> <<>>,
     img_type |-> "none", attempt |-> 0, status |-> 0, body |-> Garbled,
     data |-> NoneValue, posts |-> 0, sleeps |-> 0, polls |-> 0, net |-> 0,
     after |-> FALSE, present |-> {}, touched |-> {}, failed |-> {},
     src0 |-> [f \in Universe |-> "absent"]]

Off == [Idle EXCEPT !.pc = "off"]

\* The positions whose record exists at the moment the loop reaches them.
Reach(p) ==
    IF dst[json_file(p)].state # "absent"
    THEN run[p].present \cup {run[p].i} ELSE run[p].present

Touch(p) == run[p].touched \cup {run[p].i}

Running(p) == run[p].pc \notin {"off", "idle", "done", "killed", "aborted"}

\* A script is started: the destination is made, the inputs are listed and sorted.
Start(p) ==
    /\ run[p].pc \in {"idle", "done", "killed", "aborted"}
    /\ runs < MaxRuns
    /\ runs' = runs + 1
    /\ \E lst \in natsorted(IF variant = "vision" THEN VisionFiles(src) ELSE AzureFiles(src)) :
          run' = [run EXCEPT ![p] = [Idle EXCEPT !.pc = "loop", !.img_files = lst,
                                                 !.after = completed, !.src0 = src]]
    /\ UNCHANGED <<variant, max_retries, src, dst, completed, snap, doc>>

\* The for loop is exhausted: the script logs that it is done.
ForEnd(p) ==
    /\ run[p].pc = "loop"
    /\ run[p].i > Len(run[p].img_files)
    /\ run' = [run EXCEPT ![p].pc = "done"]
    /\ completed' = TRUE
    /\ snap' = IF completed THEN snap ELSE dst
    /\ UNCHANGED <<variant, max_retries, src, dst, runs, doc>>

\* json_file.exists(): skip files we already have data for.
Skip(p) ==
    /\ run[p].pc = "loop"
    /\ run[p].i <= Len(run[p].img_files)
    /\ exists(dst[json_file(p)])
    /\ run' = [run EXCEPT ![p].i = @ + 1, ![p].present = Reach(p)]
    /\ UNCHANGED <<variant, max_retries, src, dst, runs, completed, snap, doc>>

\* The record does not exist: analyze_image is called for the file.
Enter(p) ==
    /\ run[p].pc = "loop"
    /\ run[p].i <= Len(run[p].img_files)
    /\ ~exists(dst[json_file(p)])
    /\ run' = [run EXCEPT ![p].pc = "analyze", ![p].present = Reach(p),
                          ![p].img_file = run[p].img_files[run[p].i]]
    /\ UNCHANGED <<variant, max_retries, src, dst, runs, completed, snap, doc>>

\* vision.analyze_image up to the retry loop: the type check, the conversion
\* of a .heic file to a .png file beside it, the read of the file.
Analyze(p) ==
    /\ variant = "vision"
    /\ run[p].pc = "analyze"
    /\ LET f == run[p].img_file
           t == get_img_type(src, f)
       IN IF t = "none"
          THEN /\ run' = [run EXCEPT ![p].pc = "open", ![p].img_type = t,
                                     ![p].status = 0, ![p].posts = 0,
                                     ![p].data = NoneValue]
               /\ src' = src
          ELSE IF t = "heic"
          THEN /\ src' = [src EXCEPT ![with_suffix(f, <<".", "p", "n", "g">>)] = "converted"]
               /\ run' = [run EXCEPT ![p].pc = "post", ![p].img_type = t,
                                     ![p].img_file = with_suffix(f, <<".", "p", "n", "g">>),
                                     ![p].touched = Touch(p), ![p].status = 0,
                                     ![p].attempt = 0, ![p].posts = 0, ![p].sleeps = 0]
          ELSE /\ src' = src
               /\ run' = [run EXCEPT ![p].pc = "post", ![p].img_type = t,
                                     ![p].status = 0,
                                     ![p].attempt = 0, ![p].posts = 0, ![p].sleeps = 0]
    /\ UNCHANGED <<variant, max_retries, dst, runs, completed, snap, doc>>

\* One pass of the retry loop up to the sleep: the POST and the test of its status.
Post(p) ==
    /\ variant = "vision"
    /\ run[p].pc = "post"
    /\ \E r \in VisionResponses :
          run' = [run EXCEPT
                    ![p].status = r[1],
                    ![p].body = r[2],
                    ![p].posts = @ + 1,
                    ![p].net = @ + 1,
                    ![p].touched = Touch(p),
                    ![p].attempt = IF @ < max_retries /\ r[1] # 200 THEN @ + 1 ELSE @,
                    ![p].pc = IF run[p].attempt < max_retries /\ r[1] # 200
                              THEN "sleep" ELSE "cleanup"]
    /\ UNCHANGED <<variant, max_retries, src, dst, runs, completed, snap, doc>>

\* time.sleep(retry_delay), then the while condition.
Sleep(p) ==
    /\ run[p].pc = "sleep"
    /\ run' = [run EXCEPT
                 ![p].sleeps = @ + 1,
                 ![p].pc = IF RetryLoop(run[p].attempt, max_retries)
                           THEN "post" ELSE "cleanup"]
    /\ UNCHANGED <<variant, max_retries, src, dst, runs, completed, snap, doc>>

\* A variant of Cleanup that raises when the last POST failed.
CleanupHardStop(p) ==
    /\ run[p].pc = "cleanup"
    /\ src' = IF run[p].img_type = "heic"
              THEN [src EXCEPT ![run[p].img_file] = "absent"] ELSE src
    /\ run' = [run EXCEPT ![p].pc = IF run[p].status # 200 THEN "aborted" ELSE "open",
                          ![p].data = JsonOrEmpty(run[p].body)]
    /\ UNCHANGED <<variant, max_retries, dst, runs, completed, snap, doc>>

\* After the loop: the converted file is deleted, the body is returned as JSON.
\* unlink raises when the converted file is no longer there.
Cleanup(p) ==
    /\ run[p].pc = "cleanup"
    /\ src' = IF run[p].img_type = "heic"
              THEN [src EXCEPT ![run[p].img_file] = "absent"] ELSE src
    /\ IF run[p].img_type = "heic" /\ src[run[p].img_file] = "absent"
       THEN run' = [run EXCEPT ![p].pc = "aborted"]
       ELSE run' = [run EXCEPT ![p].pc = "open", ![p].data = JsonOrEmpty(run[p].body),
                               ![p].failed = IF run[p].status # 200
                                             THEN @ \cup {run[p].i} ELSE @]
    /\ UNCHANGED <<variant, max_retries, dst, runs, completed, snap, doc>>

\* json_file.open('w'): the record is created, or truncated, with no content yet.
Open(p) ==
    /\ run[p].pc = "open"
    /\ dst' = [dst EXCEPT ![json_file(p)] = Opened]
    /\ run' = [run EXCEPT ![p].pc = "dump", ![p].touched = Touch(p)]
    /\ UNCHANGED <<variant, max_retries, src, runs, completed, snap, doc>>

\* json.dump writes piece by piece: a full buffer reaches the file before the rest.
Flush(p) ==
    /\ run[p].pc = "dump"
    /\ dst[json_file(p)].state = "empty"
    /\ dst' = [dst EXCEPT ![json_file(p)] = Partial(run[p].data)]
    /\ UNCHANGED <<variant, max_retries, src, run, runs, completed, snap, doc>>

\* The with block ends: the whole of the data is in the record.
Dump(p) ==
    /\ run[p].pc = "dump"
    /\ dst' = [dst EXCEPT ![json_file(p)] = Complete(run[p].data)]
    /\ run' = [run EXCEPT ![p].pc = "loop", ![p].i = @ + 1]
    /\ UNCHANGED <<variant, max_retries, src, runs, completed, snap, doc>>

\* The process is terminated from outside, wherever it is.
Kill(p) ==
    /\ Running(p)
    /\ run' = [run EXCEPT ![p].pc = "killed"]
    /\ UNCHANGED <<variant, max_retries, src, dst, runs, completed, snap, doc>>

----------------------------------------------------------------------------
(* azure.py *)

\* raise_for_status raises for the 4xx and 5xx statuses.
raise_for_status(status) == status >= 400 /\ status < 600

\* A variant of the poll loop's condition that stops at any status report.
NeedsPollStatus(data) == "status" \notin data.keys

\* The while condition of the poll loop.
NeedsPoll(data) == "analyzeResult" \notin data.keys

\* azure.analyze_image: the file is read.
AzAnalyze(p) ==
    /\ variant = "azure"
    /\ run[p].pc = "analyze"
    /\ run' = [run EXCEPT
                 ![p].pc = IF src[run[p].img_file] = "absent" THEN "aborted" ELSE "post",
                 ![p].img_type = "png", ![p].status = 0, ![p].posts = 0, ![p].polls = 0,
                 ![p].sleeps = 0]
    /\ UNCHANGED <<variant, max_retries, src, dst, runs, completed, snap, doc>>

\* The POST, raise_for_status, and the Operation-Location header; data = {}.
AzPost(p) ==
    /\ variant = "azure"
    /\ run[p].pc = "post"
    /\ \E r \in AzureResponses :
          run' = [run EXCEPT
                    ![p].status = r[1],
                    ![p].posts = @ + 1,
                    ![p].net = @ + 1,
                    ![p].touched = Touch(p),
                    ![p].data = EmptyDict,
                    ![p].pc = IF raise_for_status(r[1]) \/ ~r[2]
                              THEN "aborted"
                              ELSE IF NeedsPoll(EmptyDict) THEN "poll_sleep" ELSE "open"]
    /\ UNCHANGED <<variant, max_retries, src, dst, runs, completed, snap, doc>>

\* time.sleep(delay) of the poll loop.
AzPollSleep(p) ==
    /\ run[p].pc = "poll_sleep"
    /\ run' = [run EXCEPT ![p].sleeps = @ + 1, ![p].pc = "poll_get"]
    /\ UNCHANGED <<variant, max_retries, src, dst, runs, completed, snap, doc>>

\* The GET of the result, response.json(), then the while condition.
AzPollGet(p) ==
    /\ run[p].pc = "poll_get"
    /\ run[p].polls < MaxPolls
    /\ \E b \in PollBodies :
          run' = [run EXCEPT
                    ![p].body = b,
                    ![p].polls = @ + 1,
                    ![p].net = @ + 1,
                    ![p].touched = Touch(p),
                    ![p].data = IF b.kind = "text" THEN @ ELSE b,
                    ![p].pc = IF b.kind = "text" THEN "aborted"
                              ELSE IF NeedsPoll(b) THEN "poll_sleep" ELSE "open"]
    /\ UNCHANGED <<variant, max_retries, src, dst, runs, completed, snap, doc>>

----------------------------------------------------------------------------
(* The Batch Analyzer *)

DocOff == [pc |-> "off"]

Init ==
    /\ variant \in {"vision", "azure"}
    /\ max_retries \in 0..MaxRetries
    /\ src \in {d \in [Universe -> {"absent", "orig"}] :
                   Cardinality({f \in Universe : d[f] # "absent"}) <= MaxFiles}
    /\ dst = [s \in Stems |-> Absent]
    /\ run = [p \in Procs |-> IF p = 1 THEN Idle ELSE Off]
    /\ runs = 0
    /\ completed = FALSE
    /\ snap = [s \in Stems |-> Absent]
    /\ doc = DocOff

Next ==
    \E p \in Procs :
        \/ Start(p)
        \/ ForEnd(p)
        \/ Skip(p)
        \/ Enter(p)
        \/ Analyze(p)
        \/ Post(p)
        \/ Sleep(p)
        \/ Cleanup(p)
        \/ Open(p)
        \/ Flush(p)
        \/ Dump(p)
        \/ Kill(p)
        \/ AzAnalyze(p)
        \/ AzPost(p)
        \/ AzPollSleep(p)
        \/ AzPollGet(p)

Spec == Init /\ [][Next]_vars

\* One step of the script of process p itself.
Step(p) ==
    \/ ForEnd(p) \/ Skip(p) \/ Enter(p) \/ Analyze(p) \/ Post(p) \/ Sleep(p)
    \/ Cleanup(p) \/ Open(p) \/ Flush(p) \/ Dump(p)
    \/ AzAnalyze(p) \/ AzPost(p) \/ AzPollSleep(p) \/ AzPollGet(p)

\* The steps vision.py has left at most, counted from the end of the list:
\* 2 * max_retries + 7 for each input not yet passed, less what the handling
\* of the current input has used up, and one for the end of the loop.
StepsLeft(p) ==
    LET K == 2 * max_retries + 7
        base == (Len(run[p].img_files) - run[p].i + 1) * K + 1
        pc == run[p].pc
    IN CASE pc = "loop" -> base
         [] pc = "analyze" -> base - 1
         [] pc = "post" -> base - 2 - 2 * run[p].attempt
         [] pc = "sleep" -> base - 1 - 2 * run[p].attempt
         [] pc = "cleanup" -> base - 3 - 2 * max_retries
         [] pc = "open" -> base - 4 - 2 * max_retries
         [] pc = "dump" ->
              base - 5 - 2 * max_retries
                   - (IF dst[json_file(p)].state = "partial" THEN 1 ELSE 0)
         [] OTHER -> 0

----------------------------------------------------------------------------
(* Two runs of vision.py at the same time on the same directories *)

MaxRaceFiles == 1  \* files in the source directory of the concurrent runs

\* A script that has just listed and sorted the source directory.
Listing(lst, dir) ==
    [Idle EXCEPT !.pc = "loop", !.img_files = lst, !.src0 = dir]

\* One script has just started, or two have, on a destination that holds
\* records of earlier runs for some of the inputs; no further run is started.
RaceInit ==
    /\ variant = "vision"
    /\ max_retries \in 0..MaxRetries
    /\ src \in {d \in [Universe -> {"absent", "orig"}] :
                   Cardinality({f \in Universe : d[f] # "absent"}) \in 1..MaxRaceFiles}
    /\ dst \in {d \in [Stems -> {Absent, Complete(EmptyDict)}] :
                   \A s \in Stems :
                       d[s] # Absent => \E f \in VisionFiles(src) : stem(f) = s}
    /\ \E l1 \in natsorted(VisionFiles(src)), l2 \in natsorted(VisionFiles(src)) :
          \E second \in {Off, Listing(l2, src)} :
             run = [p \in Procs |-> IF p = 1 THEN Listing(l1, src) ELSE second]
    /\ runs = MaxRuns
    /\ completed = FALSE
    /\ snap = [s \in Stems |-> Absent]
    /\ doc = DocOff

\* The steps of the processes interleave; each step is one of vision.py.
RaceNext ==
    \E p \in Procs :
        \/ ForEnd(p)
        \/ Skip(p)
        \/ Enter(p)
        \/ Analyze(p)
        \/ Post(p)
        \/ Sleep(p)
        \/ Cleanup(p)
        \/ Open(p)
        \/ Flush(p)
        \/ Dump(p)

RaceSpec == RaceInit /\ [][RaceNext]_vars

----------------------------------------------------------------------------
(* Properties of the Batch Analyzer *)

ExhaustedGivesEmpty ==
    \A p \in Procs :
        /\ (variant = "vision" /\ run[p].pc = "open" /\ run[p].posts >= 1
                /\ run[p].status # 200)
              => run[p].data = EmptyDict
        /\ (variant = "azure" /\ run[p].pc = "open") => ~raise_for_status(run[p].status)

\* C3. Skip-on-exists: a run sends no request and writes no file for an input
\* whose record existed at the moment the loop reached it.
SkipOnExists ==
    \A p \in Procs : run[p].present \cap run[p].touched = {}

SkipOnExistsWitness ==
    \E p \in Procs :
        /\ run[p].pc = "done"
        /\ run[p].present # {}
        /\ run[p].touched # {}

\* C4. Idempotence: once a run has completed, a later run sends no request and
\* the destination stays as the completed run left it, failures included.
Idempotence ==
    /\ completed => dst = snap
    /\ \A p \in Procs : run[p].after => run[p].net = 0

IdempotenceWitness ==
    \E p \in Procs :
        /\ run[p].after
        /\ run[p].pc = "done"
        /\ Len(run[p].img_files) >= 2
        /\ \E s \in Stems : dst[s] = Complete(ErrBody)
        /\ \E s \in Stems : dst[s] = Complete(OcrBody)

\* C5. No partial record: a record that exists holds the complete result.
NoPartialRecord ==
    \A s \in Stems : dst[s].state \in {"absent", "complete"}

\* C6. Safe resume: when a run reaches its end, also after an earlier run was
\* terminated, every input it listed has a complete record.
SafeResume ==
    \A p \in Procs :
        run[p].pc = "done" =>
            \A k \in 1..Len(run[p].img_files) :
                dst[stem(run[p].img_files[k])].state = "complete"

\* C7. Failure isolation: vision.py, which does not stop on failure, never
\* aborts and is never stuck; each of its steps brings the end of the run
\* nearer, also after an input has failed on every attempt; and at the end of
\* the run every input was either skipped or submitted.
FailureIsolation ==
    /\ [](\A p \in Procs :
            variant = "vision" =>
                /\ run[p].pc # "aborted"
                /\ Running(p) => ENABLED Step(p)
                /\ run[p].pc = "done" =>
                      run[p].present \cup run[p].touched = 1..Len(run[p].img_files))
    /\ [][\A p \in Procs :
            (variant = "vision" /\ Running(p) /\ run'[p] # run[p]
                /\ run'[p].pc # "killed")
                => (StepsLeft(p)' < StepsLeft(p) /\ StepsLeft(p)' >= 0)]_vars

FailureIsolationWitness ==
    \E p \in Procs :
        /\ variant = "vision"
        /\ run[p].pc = "done"
        /\ \E j \in run[p].failed : \E k \in run[p].touched : j < k

\* C12. Asynchronous submission protocol: after its POST has succeeded,
\* azure.analyze_image sleeps before every GET and polls after every sleep; as
\* long as it polls, no response so far held 'analyzeResult'; what it returns
\* is the body of its last GET, which holds 'analyzeResult'; and once it has
\* returned it issues no request.
PollProtocol ==
    /\ [](\A p \in Procs :
            variant = "azure" =>
                /\ run[p].pc = "poll_sleep" =>
                      /\ run[p].sleeps = run[p].polls
                      /\ ~raise_for_status(run[p].status)
                      /\ run[p].polls = 0 => run[p].data = EmptyDict
                      /\ run[p].polls >= 1 =>
                            (run[p].data = run[p].body
                                /\ "analyzeResult" \notin run[p].body.keys)
                /\ run[p].pc = "poll_get" =>
                      /\ run[p].sleeps = run[p].polls + 1
                      /\ "analyzeResult" \notin run[p].data.keys
                /\ run[p].pc \in {"open", "dump"} =>
                      /\ run[p].polls >= 1
                      /\ run[p].sleeps = run[p].polls
                      /\ run[p].data = run[p].body
                      /\ "analyzeResult" \in run[p].data.keys)
    /\ [][\A p \in Procs :
            (variant = "azure" /\ run[p].pc \in {"open", "dump"})
                => (run'[p].net = run[p].net /\ run'[p].polls = run[p].polls)]_vars

PollProtocolWitness ==
    \E p \in Procs :
        /\ variant = "azure"
        /\ run[p].pc = "open"
        /\ run[p].polls >= 2
        /\ run[p].data = AnalyzedBody

\* The files a run listed when it started.
Listed(p) == {run[p].img_files[k] : k \in 1..Len(run[p].img_files)}

\* C13. Input assets are never altered: when a run has reached its end, every
\* file it listed at its start is still there with the content it had then.
InputsUnaltered ==
    \A p \in Procs :
        run[p].pc = "done" =>
            \A f \in Listed(p) : src[f] = run[p].src0[f]

\* C13, as far as the code keeps it: the inputs are unaltered when the source
\* directory held no .png file of the name a .heic file converts to.
InputsUnalteredWithoutCollision ==
    \A p \in Procs :
        (run[p].pc = "done"
            /\ \A f \in Listed(p) :
                  get_img_type(run[p].src0, f) = "heic"
                      => run[p].src0[with_suffix(f, <<".", "p", "n", "g">>)] = "absent")
        => \A f \in Listed(p) : src[f] = run[p].src0[f]

InputsUnalteredWithoutCollisionWitness ==
    \E p \in Procs :
        /\ run[p].pc = "done"
        /\ F2heic \in Listed(p)
        /\ run[p].touched # {}
        /\ run[p].src0[F2png] = "absent"

\* C14. ResultRecord immutability: in single-threaded runs, one after the
\* other, a record that exists is never opened for writing, never deleted, and
\* never changed once it is complete; so each record path is opened for writing
\* at most once.
RecordImmutable ==
    [][/\ \A p \in Procs :
            (run[p].pc = "open" /\ run'[p].pc = "dump") => ~exists(dst[json_file(p)])
       /\ \A s \in Stems :
            /\ exists(dst[s]) => exists(dst'[s])
            /\ dst[s].state = "complete" => dst'[s] = dst[s]
            /\ dst'[s] # dst[s] =>
                  \E p \in Procs : run[p].pc \in {"open", "dump"} /\ json_file(p) = s]_vars

RecordImmutableWitness ==
    \E p \in Procs :
        /\ runs >= 2
        /\ run[p].pc = "done"
        /\ run[p].touched # {}
        /\ \E k \in run[p].present :
              dst[stem(run[p].img_files[k])].state \in {"empty", "partial"}

\* The process is in the poll loop of azure.analyze_image and has polled already.
Polling(p) ==
    variant = "azure" /\ run[p].pc \in {"poll_sleep", "poll_get"} /\ run[p].polls >= 1

\* C21. Poll termination: once a poll has shown the job to have ended, with
\* the completion marker or with a failed status, azure.analyze_image is out
\* of its poll loop: it does not sleep and poll for that job again.
PollTermination ==
    \A p \in Procs :
        Polling(p) => run[p].data \notin {AnalyzedBody, FailedBody}

\* C21, as far as the code keeps it: the loop is left once a poll has shown
\* the completion marker.
PollTerminationOnSuccess ==
    /\ [](\A p \in Procs : Polling(p) => run[p].data # AnalyzedBody)
    /\ [][\A p \in Procs :
            (variant = "azure" /\ run[p].pc = "poll_get" /\ run'[p].polls > run[p].polls
                /\ run'[p].body = AnalyzedBody)
            => (run'[p].pc = "open" /\ run'[p].data = AnalyzedBody)]_vars

\* The job has failed, and the loop has slept and is about to poll once more,
\* as after every poll before.
PollsOnAfterFailure ==
    \E p \in Procs :
        /\ variant = "azure"
        /\ run[p].pc = "poll_get"
        /\ run[p].polls = MaxPolls
        /\ run[p].data = FailedBody
        /\ run[p].sleeps = run[p].polls + 1

\* The process is past the skip check for an input and has not opened its record.
InFlight(p) == run[p].pc \in {"analyze", "post", "sleep", "cleanup", "open"}

\* C15. Check-then-write race: a run that is alone finds the record absent as
\* long as it is between the skip check and the write, so it never writes over
\* a record; with a second run at the same time the witness is reached, where
\* both have passed the check for the same input, both have submitted it, and
\* one opens the record the other has written.
NoRaceAlone ==
    run[2].pc = "off" =>
        \A p \in Procs :
            /\ InFlight(p) => dst[json_file(p)].state = "absent"
            /\ run[p].pc = "dump" => run[p].i \notin run[p].present

NoRaceAloneWitness ==
    /\ run[1].pc = "done"
    /\ run[2].pc = "dump"
    /\ run[1].img_files = run[2].img_files
    /\ run[2].i \in run[1].touched \ run[1].present
    /\ run[2].i \notin run[2].present
    /\ run[1].posts >= 1
    /\ run[2].posts >= 1
    /\ dst[json_file(2)] = Opened

\* C18. Retry delay placement: when vision.analyze_image has left its retry
\* loop it has slept once less than it has posted, and a sleep is spent only
\* when another POST follows it.
RetryDelayPlacement ==
    \A p \in Procs :
        variant = "vision" =>
            /\ run[p].pc = "cleanup" => run[p].sleeps = run[p].posts - 1
            /\ run[p].pc = "sleep" => run[p].attempt < max_retries

\* C18, as the code has it: one sleep after every failed POST that is counted
\* as an attempt, the last one too, so as many sleeps as POSTs when all failed.
RetryDelayAsCoded ==
    \A p \in Procs :
        (variant = "vision" /\ run[p].pc = "cleanup") =>
            run[p].sleeps =
                (IF run[p].status # 200 /\ max_retries >= 1
                 THEN run[p].posts ELSE run[p].posts - 1)

RetryDelayAsCodedWitness ==
    \E p \in Procs :
        /\ variant = "vision"
        /\ max_retries = 1
        /\ run[p].pc = "cleanup"
        /\ run[p].posts = 1
        /\ run[p].sleeps = 1

\* The process has a request for its current input under way, or its result in hand.
Submitting(p) ==
    run[p].pc \in {"post", "sleep", "cleanup", "poll_sleep", "poll_get", "open", "dump"}

\* C19. Sequential submission order: a run goes through the inputs it listed
\* at its start, each once, in natural-sort order; it has touched no input
\* beyond its current one; and while it submits an input, every earlier input
\* was either skipped or has its record written in full.
SequentialOrder ==
    \A p \in Procs :
        run[p].pc \notin {"off", "idle"} =>
            /\ Listed(p) = (IF variant = "vision" THEN VisionFiles(run[p].src0)
                                                  ELSE AzureFiles(run[p].src0))
            /\ \A j, k \in 1..Len(run[p].img_files) :
                  j < k => /\ run[p].img_files[j] # run[p].img_files[k]
                           /\ ~NatLess(run[p].img_files[k], run[p].img_files[j])
            /\ run[p].present \cup run[p].touched \subseteq 1..run[p].i
            /\ run[p].pc \in {"loop", "analyze"} => run[p].i \notin run[p].touched
            /\ Submitting(p) =>
                  \A k \in 1..(run[p].i - 1) :
                      \/ k \in run[p].present
                      \/ /\ k \in run[p].touched
                         /\ dst[stem(run[p].img_files[k])].state = "complete"

SequentialOrderWitness ==
    \E p \in Procs :
        /\ run[p].pc = "post"
        /\ run[p].img_files = <<F2jpg, F2png, F10png>>
        /\ run[p].i = 3
        /\ 1 \in run[p].touched
        /\ 2 \in run[p].present
        /\ run[p].posts = 0

\* The first run on an empty destination has reached its end.
FirstRunDone(p) == run[p].pc = "done" /\ runs = 1

\* Every listed input was submitted and the destination holds as many
\* records as inputs were listed.
RecordForEach(p) ==
    /\ run[p].touched = 1..Len(run[p].img_files)
    /\ run[p].present = {}
    /\ Cardinality({s \in Stems : dst[s].state = "complete"}) = Len(run[p].img_files)

\* C20. One record per asset: when a run that started on an empty destination
\* has reached its end, every supported input was submitted and there are as
\* many records as supported inputs.
OneRecordPerAsset ==
    \A p \in Procs : FirstRunDone(p) => RecordForEach(p)

\* C20, as far as the code keeps it: one record per asset when no two of the
\* inputs have the same stem.
OneRecordPerStem ==
    \A p \in Procs :
        (FirstRunDone(p)
            /\ \A f, g \in Listed(p) : stem(f) = stem(g) => f = g)
        => RecordForEach(p)

OneRecordPerStemWitness ==
    \E p \in Procs :
        /\ FirstRunDone(p)
        /\ run[p].img_files = <<F2jpg, F10png>>
        /\ RecordForEach(p)

\* C22. Failures are checkpointed like successes: vision.py does not stop on
\* a failure; what it writes for an input it has posted is the last body, or
\* {} when that is no JSON; when the run has reached its end, every input it
\* submitted has its record, the failed ones holding the failure body or {};
\* and no input is posted while a record of it exists, whatever it holds.
FailuresCheckpointed ==
    \A p \in Procs :
        variant = "vision" =>
            /\ run[p].pc # "aborted"
            /\ (run[p].pc = "open" /\ run[p].posts >= 1) =>
                  run[p].data = (IF run[p].body.kind = "dict" THEN run[p].body ELSE EmptyDict)
            /\ run[p].pc = "done" =>
                  \A k \in run[p].touched :
                      /\ dst[stem(run[p].img_files[k])].state = "complete"
                      /\ k \in run[p].failed =>
                            dst[stem(run[p].img_files[k])].json \in {ErrBody, EmptyDict}
            /\ run[p].pc \in {"post", "sleep", "cleanup"} =>
                  dst[json_file(p)].state = "absent"

\* A later run has passed two records of failures, one holding the failure
\* body and one {}, and has sent nothing.
FailuresCheckpointedWitness ==
    \E p \in Procs :
        /\ variant = "vision"
        /\ run[p].after
        /\ run[p].pc = "done"
        /\ run[p].net = 0
        /\ \E j, k \in run[p].present :
              /\ dst[stem(run[p].img_files[j])] = Complete(ErrBody)
              /\ dst[stem(run[p].img_files[k])] = Complete(EmptyDict)

----------------------------------------------------------------------------
(* megadoc.py: strings *)

DigitChar(n) == AsciiOrder[Ord("0") + n]

\* f"{n:02d}" for 0 <= n < 100.
Pad2(n) == <<DigitChar(n \div 10), DigitChar(n % 10)>>

RECURSIVE Decimal(_)
\* str(n) for n >= 0.
Decimal(n) == IF n < 10 THEN <<DigitChar(n)>> ELSE Decimal(n \div 10) \o <<DigitChar(n % 10)>>

\* f"{n:02d}": at least two digits, zero-padded.
Format02d(n) == IF n < 10 THEN <<"0", DigitChar(n)>> ELSE Decimal(n)

RECURSIVE split(_, _)
\* str.split(sep) for a one-character separator.
split(s, sep) ==
    IF \E k \in 1..Len(s) : s[k] = sep
    THEN LET k == CHOOSE k \in 1..Len(s) : s[k] = sep /\ \A j \in 1..(k - 1) : s[j] # sep
         IN <<SubSeq(s, 1, k - 1)>> \o split(SubSeq(s, k + 1, Len(s)), sep)
    ELSE <<s>>

RECURSIVE join(_, _)
\* sep.join(parts).
join(sep, parts) ==
    IF parts = <<>> THEN <<>>
    ELSE IF Len(parts) = 1 THEN parts[1]
    ELSE parts[1] \o sep \o join(sep, Tail(parts))

\* str.replace(old, new) for one-character strings.
replace(s, old, new) == [k \in 1..Len(s) |-> IF s[k] = old THEN new ELSE s[k]]

IsNumber(s) == s # <<>> /\ \A k \in 1..Len(s) : s[k] \in Digits

\* unidecode on one character: the closest ASCII for the characters the model's
\* texts use.
UnidecodeChar(c) ==
    CASE c = "E_ACUTE" -> <<"e">>
      [] c = "SHARP_S" -> <<"s", "s">>
      [] OTHER -> <<c>>

RECURSIVE unidecode(_)
unidecode(s) == IF s = <<>> THEN <<>> ELSE UnidecodeChar(s[1]) \o unidecode(Tail(s))

----------------------------------------------------------------------------
(* megadoc.py: get_headings *)

MonthNames ==
    << <<"J","a","n","u","a","r","y">>, <<"F","e","b","r","u","a","r","y">>,
       <<"M","a","r","c","h">>, <<"A","p","r","i","l">>, <<"M","a","y">>,
       <<"J","u","n","e">>, <<"J","u","l","y">>, <<"A","u","g","u","s","t">>,
       <<"S","e","p","t","e","m","b","e","r">>, <<"O","c","t","o","b","e","r">>,
       <<"N","o","v","e","m","b","e","r">>, <<"D","e","c","e","m","b","e","r">> >>

DaysIn(y, m) ==
    IF m = 2 THEN (IF y % 4 = 0 /\ (y % 100 # 0 \/ y % 400 = 0) THEN 29 ELSE 28)
    ELSE IF m \in {4, 6, 9, 11} THEN 30 ELSE 31

NoTime == [ok |-> FALSE, Y |-> 0, m |-> 0, d |-> 0, H |-> 0, M |-> 0, S |-> 0]

\* dateutil.parser.parse on "<date> <time>", for the strings the file names of
\* icloud.download_album give: year-month-day and hour:minute[:second], all
\* numbers and in range.  Any other string of the model's file names is one
\* dateutil raises on.
parse(date, time) ==
    LET dp == split(date, "-")
        tp == split(time, ":")
    IN IF /\ Len(dp) = 3
          /\ \A k \in 1..3 : IsNumber(dp[k])
          /\ Len(dp[1]) = 4
          /\ Len(tp) \in {2, 3}
          /\ \A k \in 1..Len(tp) : IsNumber(tp[k])
       THEN LET Y == IntVal(dp[1])
                m == IntVal(dp[2])
                d == IntVal(dp[3])
                H == IntVal(tp[1])
                M == IntVal(tp[2])
                sec == IF Len(tp) = 3 THEN IntVal(tp[3]) ELSE 0
            IN IF /\ m \in 1..12 /\ d >= 1 /\ d <= DaysIn(Y, m)
                  /\ H <= 23 /\ M <= 59 /\ sec <= 59
               THEN [ok |-> TRUE, Y |-> Y, m |-> m, d |-> d, H |-> H, M |-> M, S |-> sec]
               ELSE NoTime
       ELSE NoTime

\* timestamp.strftime('%B %d, %Y at %I:%M %p')
strftime(t) ==
    MonthNames[t.m] \o <<" ">> \o Pad2(t.d) \o <<",", " ">> \o Decimal(t.Y)
        \o <<" ", "a", "t", " ">>
        \o Pad2(IF t.H % 12 = 0 THEN 12 ELSE t.H % 12) \o <<":">> \o Pad2(t.M)
        \o <<" ">> \o (IF t.H < 12 THEN <<"A", "M">> ELSE <<"P", "M">>)

NoTimestamp == <<"[", "N", "o", " ", "t", "i", "m", "e", "s", "t", "a", "m", "p", ".", "]">>

\* get_headings: (name, timestamp) from the file name, or the file name itself
\* and the marker when the stem does not start with a date and a time.
get_headings(file_name) ==
    LET parts == split(stem(file_name), "_") IN
    IF Len(parts) < 2 THEN <<file_name, NoTimestamp>>
    ELSE LET t == parse(parts[1], replace(parts[2], "-", ":")) IN
         IF ~t.ok THEN <<file_name, NoTimestamp>>
         ELSE <<join(<<"_">>, SubSeq(parts, 3, Len(parts))), strftime(t)>>

----------------------------------------------------------------------------
(* megadoc.py: the result records and the normalization step of build_doc *)

Cafe == <<"c", "a", "f", "E_ACUTE">>
Strasse == <<"S", "t", "r", "a", "SHARP_S", "e">>
Hello == <<"h", "i">>
NoText ==
    <<"[", "N", "o", " ", "t", "e", "x", "t", " ", "r", "e", "c", "o", "v", "e", "r", "e", "d", ".", "]">>

\* What json.load gives for a record file: a dict, or an exception when the
\* file holds no complete JSON document.
Json(value) == [ok |-> TRUE, value |-> value]
NotJson == [ok |-> FALSE, value |-> <<>>]

\* Read-style, blocks[*].lines[*].text.
ReadBlocks ==
    Json([readResult |->
            [blocks |-> << [lines |-> << [text |-> Cafe], [text |-> Hello] >>] >>]])
\* Read-style, pages[*].lines[*].content, the second page without lines.
ReadPages ==
    Json([readResult |->
            [pages |-> << [lines |-> << [content |-> Strasse] >>],
                          [lines |-> << >>] >>]])
\* Layout-style, paragraphs[*].content.
Layout ==
    Json([analyzeResult |->
            [paragraphs |-> << [content |-> Cafe], [content |-> Hello] >>]])
\* The body of a failed request, as vision.analyze_images writes it.
ErrorRecord == Json([error |-> [code |-> <<"5", "0", "0">>]])
\* {} as vision.analyze_image returns it for an undecodable body.
EmptyRecord == Json([x \in {} |-> <<>>])
\* Read-style without blocks and without pages.
ReadNoPages == Json([readResult |-> [modelVersion |-> Hello]])
\* Read-style with an empty list of pages.
ReadEmptyPages == Json([readResult |-> [pages |-> << >>]])
\* Read-style with a page that has no lines field.
ReadNoLines == Json([readResult |-> [pages |-> << [words |-> << >>] >>]])
\* Layout-style without paragraphs.
LayoutNoParagraphs == Json([analyzeResult |-> [content |-> Hello]])
\* Layout-style, the second paragraph without content.
LayoutNoContent ==
    Json([analyzeResult |->
            [paragraphs |-> << [content |-> Hello], [role |-> Hello] >>]])
\* Both discriminators.
ReadAndLayout ==
    Json([readResult |-> [blocks |-> << [lines |-> << [text |-> Hello] >>] >>],
          analyzeResult |-> [paragraphs |-> << [content |-> Cafe] >>]])
\* A record file left empty or cut short.
Truncated == NotJson

Rec1 == <<"2", "0", "2", "3", "-", "0", "5", "-", "0", "1", "_", "1", "4", "-", "3", "0", "-", "0", "0", "_", "a", ".", "j", "s", "o", "n">>
Rec2 == <<"2", "0", "2", "3", "-", "0", "5", "-", "0", "1", "_", "0", "9", "-", "0", "5", "-", "0", "0", "_", "b", ".", "j", "s", "o", "n">>
Rec3 == <<"2", "0", "2", "3", "-", "0", "5", "-", "1", "0", "_", "0", "8", "-", "0", "0", "-", "0", "0", "_", "c", ".", "j", "s", "o", "n">>
Rec4 == <<"2", "0", "2", "3", "-", "1", "2", "-", "0", "1", "_", "0", "0", "-", "0", "0", "-", "0", "0", "_", "d", "_", "e", ".", "j", "s", "o", "n">>
Rec5 == <<"I", "M", "G", "_", "2", ".", "j", "s", "o", "n">>
Rec6 == <<"I", "M", "G", "_", "1", "0", ".", "j", "s", "o", "n">>
Rec7 == <<"2", "0", "2", "2", "-", "0", "1", "-", "0", "1", "_", "2", "3", "-", "5", "9", "-", "5", "9", "_", "f", ".", "j", "s", "o", "n">>
Rec8 == <<"s", "c", "a", "n", ".", "j", "s", "o", "n">>
Rec9 == <<"2", "0", "2", "3", "-", "0", "5", "-", "0", "2", "_", "1", "2", "-", "0", "0", "-", "0", "0", "_", "g", ".", "j", "s", "o", "n">>
Rec10 == <<"I", "M", "G", "_", "3", ".", "j", "s", "o", "n">>
Rec11 == <<"2", "0", "2", "3", "-", "0", "5", "-", "0", "1", "_", "1", "4", "-", "3", "0", "-", "0", "0", ".", "j", "s", "o", "n">>
Rec12 == <<"x", "9", ".", "j", "s", "o", "n">>

\* The record files a data directory can hold, each with its content.
RecordNames == {Rec1, Rec2, Rec3, Rec4, Rec5, Rec6, Rec7, Rec8, Rec9, Rec10, Rec11, Rec12}

ContentOf(file_name) ==
    CASE file_name = Rec1 -> ReadBlocks
      [] file_name = Rec2 -> ReadPages
      [] file_name = Rec3 -> Layout
      [] file_name = Rec4 -> ErrorRecord
      [] file_name = Rec5 -> EmptyRecord
      [] file_name = Rec6 -> ReadNoPages
      [] file_name = Rec7 -> ReadEmptyPages
      [] file_name = Rec8 -> LayoutNoParagraphs
      [] file_name = Rec9 -> LayoutNoContent
      [] file_name = Rec10 -> ReadAndLayout
      [] file_name = Rec11 -> Truncated
      [] file_name = Rec12 -> ReadNoLines

RECURSIVE ReadLines(_, _)
\* for line in block['lines']: lines.append(unidecode(line[text_key])).
\* ok is FALSE when a line has neither 'text' nor 'content' (KeyError).
ReadLines(ls, acc) ==
    IF Len(ls) = 0 THEN [ok |-> TRUE, lines |-> acc]
    ELSE LET line == ls[1]
             text_key == IF "text" \in DOMAIN line THEN "text" ELSE "content"
         IN IF text_key \notin DOMAIN line
            THEN [ok |-> FALSE, lines |-> acc]
            ELSE ReadLines(Tail(ls), Append(acc, unidecode(line[text_key])))

RECURSIVE AddReadBlocks(_, _)
\* for block in data['readResult'][block_key]: one paragraph for each block,
\* its lines joined by newlines.  raised is TRUE when a KeyError leaves the loop.
AddReadBlocks(blocks, acc) ==
    IF Len(blocks) = 0 THEN [raised |-> FALSE, paras |-> acc]
    ELSE IF "lines" \notin DOMAIN blocks[1] THEN [raised |-> TRUE, paras |-> acc]
    ELSE LET r == ReadLines(blocks[1].lines, <<>>) IN
         IF ~r.ok THEN [raised |-> TRUE, paras |-> acc]
         ELSE AddReadBlocks(Tail(blocks), Append(acc, join(<<"\n">>, r.lines)))

RECURSIVE AddParagraphs(_, _)
\* for p in data['analyzeResult']['paragraphs'], inside try/except KeyError:
\* the placeholder is added when a paragraph has no 'content'.
AddParagraphs(ps, acc) ==
    IF Len(ps) = 0 THEN acc
    ELSE IF "content" \notin DOMAIN ps[1] THEN Append(acc, NoText)
    ELSE AddParagraphs(Tail(ps), Append(acc, unidecode(ps[1].content)))

\* A variant of the normalization step that looks for 'analyzeResult' first.
NormalizeLayoutFirst(data) ==
    IF "analyzeResult" \in DOMAIN data
    THEN [raised |-> FALSE,
          paras |-> IF "paragraphs" \notin DOMAIN data.analyzeResult
                    THEN <<NoText>>
                    ELSE AddParagraphs(data.analyzeResult.paragraphs, <<>>)]
    ELSE IF "readResult" \in DOMAIN data
    THEN LET rr == data.readResult
             block_key == IF "blocks" \in DOMAIN rr THEN "blocks" ELSE "pages"
         IN IF block_key \notin DOMAIN rr
            THEN [raised |-> TRUE, paras |-> <<>>]
            ELSE AddReadBlocks(rr[block_key], <<>>)
    ELSE [raised |-> FALSE, paras |-> <<NoText>>]

\* The normalization step of build_doc: the paragraphs it adds for a record,
\* and whether it raises.
Normalize(data) ==
    IF "readResult" \in DOMAIN data
    THEN LET rr == data.readResult
             block_key == IF "blocks" \in DOMAIN rr THEN "blocks" ELSE "pages"
         IN IF block_key \notin DOMAIN rr
            THEN [raised |-> TRUE, paras |-> <<>>]
            ELSE AddReadBlocks(rr[block_key], <<>>)
    ELSE IF "analyzeResult" \in DOMAIN data
    THEN [raised |-> FALSE,
          paras |-> IF "paragraphs" \notin DOMAIN data.analyzeResult
                    THEN <<NoText>>
                    ELSE AddParagraphs(data.analyzeResult.paragraphs, <<>>)]
    ELSE [raised |-> FALSE, paras |-> <<NoText>>]

----------------------------------------------------------------------------
(* megadoc.py: build_doc *)

\* data_path.parent.name
ParentName == <<"2", "0", "2", "2", "-", "1", "1">>

\* chunk_total: file_count // chunk_size, one more when there is a remainder.
ChunkTotal(file_count, chunk_size) ==
    IF file_count % chunk_size # 0
    THEN file_count \div chunk_size + 1
    ELSE file_count \div chunk_size

\* f"{data_path.parent.name}_{(chunk + 1):02d}of{(chunk_total):02d}.docx"
ChunkFileName(chunk, chunk_total) ==
    ParentName \o <<"_">> \o Format02d(chunk + 1) \o <<"o", "f">> \o Format02d(chunk_total)
        \o <<".", "d", "o", "c", "x">>

\* json_files[start:end] with start = chunk * chunk_size, end = (chunk + 1) * chunk_size.
ChunkSlice(files, chunk, chunk_size) ==
    SubSeq(files, chunk * chunk_size + 1,
           IF (chunk + 1) * chunk_size < Len(files)
           THEN (chunk + 1) * chunk_size ELSE Len(files))

\* The elements python-docx appends to the document.
Heading(level, text) == [kind |-> "heading", level |-> level, text |-> text]
Paragraph(text) == [kind |-> "paragraph", level |-> 0, text |-> text]
PageBreak == [kind |-> "page_break", level |-> 0, text |-> <<>>]

Paragraphs(texts) == [k \in 1..Len(texts) |-> Paragraph(texts[k])]

DocEntry(dir, size) ==
    [pc |-> "start", dir |-> dir, chunk_size |-> size, json_files |-> <<>>,
     file_count |-> 0, chunk_total |-> 0, chunk |-> 0, k |-> 1,
     filename |-> <<>>, body |-> <<>>, chunk_files |-> <<>>, error |-> "none"]

Batch == <<variant, max_retries, src, dst, run, runs, completed, snap>>

\* The records are listed and sorted, the number of chunks is computed.
DocList ==
    /\ doc.pc = "start"
    /\ \E lst \in natsorted(doc.dir) :
          doc' = [doc EXCEPT !.pc = "chunk", !.json_files = lst,
                             !.file_count = Len(lst),
                             !.chunk_total = ChunkTotal(Len(lst), doc.chunk_size),
                             !.chunk = 0, !.chunk_files = <<>>]
    /\ UNCHANGED Batch

\* for chunk in range(chunk_total): a new Document and its file name.
DocNewChunk ==
    /\ doc.pc = "chunk"
    /\ doc.chunk < doc.chunk_total
    /\ doc' = [doc EXCEPT !.pc = "file", !.k = 1, !.body = <<>>,
                          !.filename = ChunkFileName(doc.chunk, doc.chunk_total)]
    /\ UNCHANGED Batch

\* One pass of the inner loop: the record is loaded, its headings, its text
\* and a page break are appended.  An exception ends build_doc.
DocAddSection ==
    /\ doc.pc = "file"
    /\ doc.k <= Len(ChunkSlice(doc.json_files, doc.chunk, doc.chunk_size))
    /\ LET file == ChunkSlice(doc.json_files, doc.chunk, doc.chunk_size)[doc.k]
           loaded == ContentOf(file)
           h == get_headings(file)
           heads == <<Heading(1, h[1]), Heading(2, h[2])>>
       IN IF ~loaded.ok
          THEN doc' = [doc EXCEPT !.pc = "raised", !.error = "JSONDecodeError"]
          ELSE LET n == Normalize(loaded.value) IN
               IF n.raised
               THEN doc' = [doc EXCEPT !.pc = "raised", !.error = "KeyError",
                                       !.body = @ \o heads \o Paragraphs(n.paras)]
               ELSE doc' = [doc EXCEPT !.k = @ + 1,
                                       !.body = @ \o heads \o Paragraphs(n.paras)
                                                  \o <<PageBreak>>]
    /\ UNCHANGED Batch

\* The inner loop is exhausted: the chunk is saved and added to chunk_files.
DocSave ==
    /\ doc.pc = "file"
    /\ doc.k > Len(ChunkSlice(doc.json_files, doc.chunk, doc.chunk_size))
    /\ doc' = [doc EXCEPT !.pc = "chunk", !.chunk = @ + 1,
                          !.chunk_files = Append(@, [filename |-> doc.filename,
                                                     body |-> doc.body])]
    /\ UNCHANGED Batch

\* The outer loop is exhausted: the chunks are zipped, build_doc returns.
DocZip ==
    /\ doc.pc = "chunk"
    /\ doc.chunk >= doc.chunk_total
    /\ doc' = [doc EXCEPT !.pc = "done"]
    /\ UNCHANGED Batch

DocInit ==
    /\ variant = "vision"
    /\ max_retries = 0
    /\ src = [f \in Universe |-> "absent"]
    /\ dst = [s \in Stems |-> Absent]
    /\ run = [p \in Procs |-> Off]
    /\ runs = 0
    /\ completed = FALSE
    /\ snap = [s \in Stems |-> Absent]
    /\ \E dir \in SUBSET RecordNames : \E size \in 1..MaxChunkSize :
          /\ Cardinality(dir) <= MaxRecords
          /\ doc = DocEntry(dir, size)

DocNext == DocList \/ DocNewChunk \/ DocAddSection \/ DocSave \/ DocZip

DocSpec == DocInit /\ [][DocNext]_vars

----------------------------------------------------------------------------
(* Properties of the Document Assembler *)

Ended == doc.pc \in {"done", "raised"}

\* The sections of a document: one ends at each page break.
SectionCount(body) == Cardinality({k \in 1..Len(body) : body[k].kind = "page_break"})

CeilDiv(n, c) == (n + c - 1) \div c

\* The chunks build_doc is to save for n records in chunks of c: their number,
\* the number of sections of each, and their file names.
ChunksAsSpecified(n, c) ==
    /\ Len(doc.chunk_files) = CeilDiv(n, c)
    /\ \A j \in 1..Len(doc.chunk_files) :
          /\ SectionCount(doc.chunk_files[j].body) =
                (IF j < CeilDiv(n, c) THEN c ELSE n - c * (CeilDiv(n, c) - 1))
          /\ SectionCount(doc.chunk_files[j].body) \in 1..c
          /\ doc.chunk_files[j].filename =
                ParentName \o <<"_">> \o Pad2(j) \o <<"o", "f">> \o Pad2(CeilDiv(n, c))
                    \o <<".", "d", "o", "c", "x">>

\* C8. Chunking: when build_doc has ended, it has saved ceil(N/C) chunks, each
\* but the last of C sections, the last of the rest, named <name>_<ii>of<nn>.
Chunking ==
    Ended => ChunksAsSpecified(Cardinality(doc.dir), doc.chunk_size)

\* C8, as far as the code keeps it: when build_doc returns, the chunks are as specified.
ChunkingWhenReturned ==
    doc.pc = "done" => ChunksAsSpecified(Cardinality(doc.dir), doc.chunk_size)

ChunkingWhenReturnedWitness ==
    /\ doc.pc = "done"
    /\ Len(doc.chunk_files) >= 2
    /\ SectionCount(doc.chunk_files[Len(doc.chunk_files)].body) < doc.chunk_size

\* Every section that is closed by a page break holds a paragraph.
EverySectionHasText(body) ==
    \A k \in 1..Len(body) :
        body[k].kind = "page_break" => (k > 1 /\ body[k - 1].kind = "paragraph")

\* C9. Normalizer completeness: for a record that json.load has read, the
\* normalization step raises nothing and adds at least one text block.
NormalizerComplete ==
    doc.pc \notin {"off", "start"} =>
        /\ doc.error # "KeyError"
        /\ EverySectionHasText(doc.body)

RECURSIVE Labels(_)
\* The level 1 headings of a document, in document order.
Labels(body) ==
    IF Len(body) = 0 THEN <<>>
    ELSE (IF body[1].kind = "heading" /\ body[1].level = 1 THEN <<body[1].text>> ELSE <<>>)
            \o Labels(Tail(body))

RECURSIVE SavedLabels(_)
\* The level 1 headings of the saved chunks, in chunk order.
SavedLabels(chunks) ==
    IF Len(chunks) = 0 THEN <<>>
    ELSE Labels(chunks[1].body) \o SavedLabels(Tail(chunks))

\* A section is a heading, the timestamp heading, text, a page break.
WellFormed(body) ==
    \A k \in 1..Len(body) :
        /\ (body[k].kind = "heading" /\ body[k].level = 1) =>
              /\ k < Len(body) /\ body[k + 1].kind = "heading" /\ body[k + 1].level = 2
              /\ k = 1 \/ body[k - 1].kind = "page_break"
        /\ (body[k].kind = "heading" /\ body[k].level = 2) =>
              k < Len(body) /\ body[k + 1].kind = "paragraph"
        /\ body[k].kind = "paragraph" =>
              k < Len(body) /\ body[k + 1].kind \in {"paragraph", "page_break"}

\* The time a file name states, as get_headings reads it.
TimeOf(file_name) ==
    LET parts == split(stem(file_name), "_") IN
    IF Len(parts) < 2 THEN NoTime ELSE parse(parts[1], replace(parts[2], "-", ":"))

Day(t) == (t.Y * 12 + t.m) * 31 + t.d
SecondOfDay(t) == (t.H * 60 + t.M) * 60 + t.S

NotLater(a, b) ==
    Day(a) < Day(b) \/ (Day(a) = Day(b) /\ SecondOfDay(a) <= SecondOfDay(b))

\* The saved sections are those of the natural-sorted list of the directory's
\* records, one for each, in order, well formed and in the order of their times.
AssembledInOrder ==
    /\ doc.json_files \in natsorted(doc.dir)
    /\ SavedLabels(doc.chunk_files) =
          [k \in 1..Len(doc.json_files) |-> get_headings(doc.json_files[k])[1]]
    /\ \A j \in 1..Len(doc.chunk_files) : WellFormed(doc.chunk_files[j].body)
    /\ \A j, k \in 1..Len(doc.json_files) :
          (j < k /\ TimeOf(doc.json_files[j]).ok /\ TimeOf(doc.json_files[k]).ok)
              => NotLater(TimeOf(doc.json_files[j]), TimeOf(doc.json_files[k]))

\* C10. Assembly order and coverage: when build_doc has ended, the saved chunks
\* hold exactly one section for each record, in natural-sort order.
AssemblyOrder == Ended => AssembledInOrder

\* The order and coverage part of C10 when build_doc returns.
AssemblyOrderWhenReturned ==
    doc.pc = "done" =>
        /\ doc.json_files \in natsorted(doc.dir)
        /\ SavedLabels(doc.chunk_files) =
              [k \in 1..Len(doc.json_files) |-> get_headings(doc.json_files[k])[1]]
        /\ \A j, k \in 1..Len(doc.json_files) :
              (j < k /\ TimeOf(doc.json_files[j]).ok /\ TimeOf(doc.json_files[k]).ok)
                  => NotLater(TimeOf(doc.json_files[j]), TimeOf(doc.json_files[k]))

\* The documents build_doc has made so far: the saved chunks and the one in work.
Bodies ==
    IF doc.pc \in {"chunk", "file", "done", "raised"}
    THEN {doc.body} \cup {doc.chunk_files[j].body : j \in 1..Len(doc.chunk_files)}
    ELSE {}

RECURSIVE TextsFrom(_, _)
\* The texts of the paragraphs that follow one another from place k on.
TextsFrom(body, k) ==
    IF k > Len(body) \/ body[k].kind # "paragraph" THEN <<>>
    ELSE <<body[k].text>> \o TextsFrom(body, k + 1)

\* The text blocks of the section whose level 1 heading is at place k.
SectionTexts(body, k) == TextsFrom(body, k + 2)

\* The section whose level 1 heading is at place k ends with a page break.
Closed(body, k) ==
    /\ k + 2 + Len(SectionTexts(body, k)) <= Len(body)
    /\ body[k + 2 + Len(SectionTexts(body, k))].kind = "page_break"

\* The section at place k of a document is that of record file f.
SectionOfRecord(body, k, f) ==
    /\ body[k].kind = "heading"
    /\ body[k].level = 1
    /\ body[k].text = get_headings(f)[1]

\* The read-style content as text blocks: one for each entry of 'blocks', or
\* of 'pages' when there are no blocks, the texts of its lines joined by newlines.
ReadStyleTexts(rr) ==
    LET entries == IF "blocks" \in DOMAIN rr THEN rr.blocks ELSE rr.pages IN
    [b \in 1..Len(entries) |->
        join(<<"\n">>,
             [l \in 1..Len(entries[b].lines) |->
                 unidecode(IF "text" \in DOMAIN entries[b].lines[l]
                           THEN entries[b].lines[l].text
                           ELSE entries[b].lines[l].content)])]

\* The layout-style content as text blocks: one for each paragraph.
LayoutStyleTexts(ar) ==
    [q \in 1..Len(ar.paragraphs) |-> unidecode(ar.paragraphs[q].content)]

\* C16. Schema precedence: the finished section of a record that has
\* 'readResult' holds the read-style text blocks and nothing else, also when
\* the record has 'analyzeResult' as well; a section holds the layout-style
\* paragraphs only when its record has no 'readResult'.
SchemaPrecedence ==
    \A body \in Bodies : \A k \in 1..Len(body) : \A f \in doc.dir :
        (SectionOfRecord(body, k, f) /\ ContentOf(f).ok /\ Closed(body, k)) =>
            LET data == ContentOf(f).value IN
            /\ "readResult" \in DOMAIN data =>
                  SectionTexts(body, k) = ReadStyleTexts(data.readResult)
            /\ f = Rec10 => SectionTexts(body, k) = << Hello >>
            /\ f = Rec3 => SectionTexts(body, k) = LayoutStyleTexts(data.analyzeResult)
            /\ f = Rec3 => SectionTexts(body, k) = << <<"c", "a", "f", "e">>, Hello >>

SchemaPrecedenceWitness ==
    /\ doc.pc = "done"
    /\ \E j \in 1..Len(doc.chunk_files) :
          \E k \in 1..Len(doc.chunk_files[j].body) :
             /\ SectionOfRecord(doc.chunk_files[j].body, k, Rec10)
             /\ Closed(doc.chunk_files[j].body, k)
    /\ Rec3 \in doc.dir

\* An entry of 'blocks' or 'pages' has no 'lines', or a line of it neither
\* 'text' nor 'content'.
EntryLacksFields(entry) ==
    IF "lines" \notin DOMAIN entry THEN TRUE
    ELSE \E l \in 1..Len(entry.lines) :
            "text" \notin DOMAIN entry.lines[l] /\ "content" \notin DOMAIN entry.lines[l]

\* The record has neither discriminator.
Unrecognized(data) ==
    "readResult" \notin DOMAIN data /\ "analyzeResult" \notin DOMAIN data

\* The record has a discriminator, and a nested field its schema expects is
\* absent: the container, a list of lines, or the text of an entry.
LacksFields(data) ==
    IF "readResult" \in DOMAIN data
    THEN IF "blocks" \in DOMAIN data.readResult
         THEN \E b \in 1..Len(data.readResult.blocks) :
                 EntryLacksFields(data.readResult.blocks[b])
         ELSE IF "pages" \in DOMAIN data.readResult
         THEN \E b \in 1..Len(data.readResult.pages) :
                 EntryLacksFields(data.readResult.pages[b])
         ELSE TRUE
    ELSE IF "analyzeResult" \in DOMAIN data
    THEN IF "paragraphs" \in DOMAIN data.analyzeResult
         THEN \E q \in 1..Len(data.analyzeResult.paragraphs) :
                 "content" \notin DOMAIN data.analyzeResult.paragraphs[q]
         ELSE TRUE
    ELSE FALSE

\* C17. Single placeholder: the section of a record that has neither
\* discriminator, or a discriminator without the nested fields it expects, is
\* finished and holds one text block, the placeholder, and nothing beside it.
SinglePlaceholder ==
    \A body \in Bodies : \A k \in 1..Len(body) : \A f \in doc.dir :
        (SectionOfRecord(body, k, f) /\ ContentOf(f).ok
            /\ (Unrecognized(ContentOf(f).value) \/ LacksFields(ContentOf(f).value)))
        => /\ SectionTexts(body, k) = <<NoText>>
           /\ Closed(body, k)

\* C17, as far as the code keeps it: one placeholder for a record with neither
\* discriminator and for a layout-style record without 'paragraphs'.
SinglePlaceholderWithoutContainer ==
    \A body \in Bodies : \A k \in 1..Len(body) : \A f \in doc.dir :
        (SectionOfRecord(body, k, f) /\ ContentOf(f).ok
            /\ \/ Unrecognized(ContentOf(f).value)
               \/ /\ "readResult" \notin DOMAIN ContentOf(f).value
                  /\ "analyzeResult" \in DOMAIN ContentOf(f).value
                  /\ "paragraphs" \notin DOMAIN ContentOf(f).value.analyzeResult)
        => /\ SectionTexts(body, k) = <<NoText>>
           /\ Closed(body, k)

\* A layout-style record whose second paragraph has no 'content': the section
\* holds the text of the first paragraph and the placeholder after it.
SinglePlaceholderPartialLayout ==
    \E body \in Bodies : \E k \in 1..Len(body) :
        /\ SectionOfRecord(body, k, Rec9)
        /\ Closed(body, k)
        /\ SectionTexts(body, k) = <<Hello, NoText>>

----------------------------------------------------------------------------
(* megadoc.py: get_headings on its own *)

MaxParts == 3      \* parts, separated by "_", of the stems get_headings is given

D1 == <<"2", "0", "2", "3", "-", "0", "5", "-", "0", "1">>
\* February 30: a date dateutil raises on.
D2 == <<"2", "0", "2", "3", "-", "0", "2", "-", "3", "0">>
T1 == <<"1", "4", "-", "3", "0", "-", "0", "0">>
\* Hour and minute only, just after midnight.
T2 == <<"0", "0", "-", "0", "5">>
\* Hour 24: a time dateutil raises on.
T3 == <<"2", "4", "-", "0", "0", "-", "0", "0">>
W1 == <<"I", "M", "G">>
W2 == <<"v">>

HeadParts == {D1, D2, T1, T2, T3, W1, W2}

HeadSuffixes == { <<".", "j", "p", "g">>, <<".", "j", "s", "o", "n">> }

IMG_0001 == <<"I", "M", "G", "_", "0", "0", "0", "1", ".", "j", "p", "g">>

\* The file names get_headings is called with: stems of one to MaxParts parts
\* with a suffix, and the name the camera gives.
HeadNames ==
    {IMG_0001} \cup
    { join(<<"_">>, ps) \o sfx :
        ps \in UNION { [1..n -> HeadParts] : n \in 1..MaxParts }, sfx \in HeadSuffixes }

\* get_headings is called with a file name.
HeadInit ==
    /\ variant = "vision"
    /\ max_retries = 0
    /\ src = [f \in Universe |-> "absent"]
    /\ dst = [s \in Stems |-> Absent]
    /\ run = [p \in Procs |-> Off]
    /\ runs = 0
    /\ completed = FALSE
    /\ snap = [s \in Stems |-> Absent]
    /\ \E n \in HeadNames :
          doc = [pc |-> "get_headings", file_path |-> n, result |-> << <<>>, <<>> >>]

\* get_headings returns.
GetHeadings ==
    /\ doc.pc = "get_headings"
    /\ doc' = [doc EXCEPT !.pc = "returned", !.result = get_headings(doc.file_path)]
    /\ UNCHANGED Batch

HeadNext == GetHeadings

HeadSpec == HeadInit /\ [][HeadNext]_vars

----------------------------------------------------------------------------
(* Properties of get_headings *)

May_01_2023_at_0230_PM ==
    <<"M", "a", "y", " ", "0", "1", ",", " ", "2", "0", "2", "3", " ", "a", "t", " ",
      "0", "2", ":", "3", "0", " ", "P", "M">>

\* The stem is <date>_<time>_<rest...>: three parts or more, the first two a
\* date and a time that parse.
MatchesPattern(file_name) ==
    /\ Len(split(stem(file_name), "_")) >= 3
    /\ TimeOf(file_name).ok

\* C11. Heading derivation: for a name <date>_<time>_<rest...> with a date and
\* a time that parse, get_headings returns the rest joined by "_" and the
\* formatted time; for every other name it returns the name with its extension
\* and the marker "[No timestamp.]".
HeadingDerivation ==
    doc.pc = "returned" =>
        IF MatchesPattern(doc.file_path)
        THEN LET parts == split(stem(doc.file_path), "_") IN
             /\ doc.result[1] = join(<<"_">>, SubSeq(parts, 3, Len(parts)))
             /\ doc.result[2] = strftime(TimeOf(doc.file_path))
             /\ doc.result[2] # NoTimestamp
        ELSE doc.result = <<doc.file_path, NoTimestamp>>

\* C11, as far as the code keeps it: the claim holds for every name but those
\* of exactly two parts that parse as a date and a time.
HeadingDerivationButTwoParts ==
    (doc.pc = "returned"
        /\ ~(Len(split(stem(doc.file_path), "_")) = 2 /\ TimeOf(doc.file_path).ok))
    => /\ HeadingDerivation
       /\ doc.file_path = D1 \o <<"_">> \o T1 \o <<"_">> \o W2 \o <<".", "j", "p", "g">>
             => doc.result = <<W2, May_01_2023_at_0230_PM>>
       /\ doc.file_path = IMG_0001 => doc.result = <<IMG_0001, NoTimestamp>>

\* A name of a date and a time and nothing more: the label is empty.
HeadingDerivationTwoParts ==
    /\ doc.pc = "returned"
    /\ doc.file_path = D1 \o <<"_">> \o T1 \o <<".", "j", "s", "o", "n">>
    /\ doc.result = << <<>>, May_01_2023_at_0230_PM >>

====
